---- MODULE Spec2Model ----
(***************************************************************************)
(* Break Bricks (src/breakout.py): the game state machine of class Game,   *)
(* the paddle / ball integration and the collision helpers, as a state     *)
(* machine whose actions are the input handlers (Game.handle_event) and    *)
(* the per-frame step (Game.update).                                        *)
(*                                                                         *)
(* Numbers.  The program computes in floats; the model computes in fixed   *)
(* point.  Positions are integers in units of 1/PX pixel, velocities in    *)
(* units of 1/VU pixel per second and the frame time dt in milliseconds,   *)
(* so that  position + velocity * dt  is exact (PX = VU * 1000).  pygame   *)
(* rectangles hold integer pixels, as in the program.  Quotients truncate  *)
(* toward zero.                                                            *)
(***************************************************************************)
EXTENDS Integers, Sequences, FiniteSets, TLC

\* ------------------------------------------------------------------ units
VU == 5 + 5                 \* velocity units per pixel/second
PX == VU * 1000             \* position units per pixel

\* --------------------------------------------------- configuration (l.39-61)
LOGICAL_W == 800
LOGICAL_H == 600
FPS == 120
PADDLE_W == 110
PADDLE_H == 16
PADDLE_Y == LOGICAL_H - 60
PADDLE_ACCEL == 2200
PADDLE_MAX_SPEED == 650
BALL_RADIUS == 8
BALL_SPEED == 370
BALL_SPEED_INC_ON_HIT == 4
BALL_MAX_SPEED == 820
BRICK_ROWS == 7
BRICK_COLS == 12
BRICK_W == 56
BRICK_H == 24
BRICK_GAP == 4
TOP_MARGIN == 80
LIVES_START == 3
\* reflect_ball_off_paddle's speed bump (l.303), the name cap (l.673), the
\* per-brick reward (l.490), the last level (l.504) and the F10 offset (l.659)
PADDLE_HIT_INC == 6
NAME_CAP == 12
BRICK_REWARD == 10
LAST_LEVEL == 5
CHEAT_DROP == 100

STATE_MENU == "MENU"
STATE_PLAYING == "PLAYING"
STATE_INPUT_NAME == "INPUT_NAME"
STATE_GAME_OVER == "GAME_OVER"

\* ----------------------------------------------------------------- bounds
\* Simulation ticks explored for one ball in flight (from its launch on).
MaxTicks == 3
\* Balls explored in one session (from start_level on).
MaxBalls == 3
\* The frames explored: <<dt, left, right>>, the frame time in ms that
\* clock.tick returned (l.692), a short frame and a stall, and the polled
\* direction keys (l.477-479).
Frames == {<<240, FALSE, FALSE>>, <<2000, FALSE, FALSE>>, <<2000, TRUE, FALSE>>}
\* Launch angles, in degrees, drawn by random.uniform(45, 135) (l.450).
LaunchAngles == {90}

\* -------------------------------------------------------------- arithmetic
Abs(n) == IF n < 0 THEN -n ELSE n
Min(a, b) == IF a < b THEN a ELSE b
Max(a, b) == IF a > b THEN a ELSE b
\* Quotient truncated toward zero, as Python's int() of a float quotient.
TDiv(a, b) == IF a >= 0 THEN a \div b ELSE -((-a) \div b)

RECURSIVE SqrtIter(_, _, _)
SqrtIter(n, lo, hi) ==
    IF lo >= hi THEN lo
    ELSE LET mid == (lo + hi + 1) \div 2
         IN  IF mid * mid <= n THEN SqrtIter(n, mid, hi)
             ELSE SqrtIter(n, lo, mid - 1)
\* floor(sqrt(n)) for 0 <= n < 2^30
ISqrt(n) == SqrtIter(n, 0, 32767)
\* math.hypot, in velocity units
Hypot(vx, vy) == ISqrt(vx * vx + vy * vy)
\* math.hypot rounded up, for the quotients that are truncated toward zero
HypotUp(vx, vy) ==
    LET h == Hypot(vx, vy) IN IF h * h = vx * vx + vy * vy THEN h ELSE h + 1

\* ------------------------------------------------------------ trigonometry
\* The scale of the sine table: sines are kept to five decimals, truncated.
TRIG == 100000
\* TRIG * sin of 0..90 degrees (math.sin of math.radians, l.302-305, l.450-452)
SinTable ==
    <<
       0, 1745, 3489, 5233, 6975, 8715, 10452, 12186, 13917, 15643,
       17364, 19080, 20791, 22495, 24192, 25881, 27563, 29237, 30901, 32556,
       34202, 35836, 37460, 39073, 40673, 42261, 43837, 45399, 46947, 48480,
       50000, 51503, 52991, 54463, 55919, 57357, 58778, 60181, 61566, 62932,
       64278, 65605, 66913, 68199, 69465, 70710, 71933, 73135, 74314, 75470,
       76604, 77714, 78801, 79863, 80901, 81915, 82903, 83867, 84804, 85716,
       86602, 87461, 88294, 89100, 89879, 90630, 91354, 92050, 92718, 93358,
       93969, 94551, 95105, 95630, 96126, 96592, 97029, 97437, 97814, 98162,
       98480, 98768, 99026, 99254, 99452, 99619, 99756, 99862, 99939, 99984,
       100000
    >>
RECURSIVE SinDeg(_)
SinDeg(a) ==
    IF a < 0 THEN -SinDeg(-a)
    ELSE IF a >= 360 THEN SinDeg(a - 360)
    ELSE IF a > 180 THEN -SinDeg(a - 180)
    ELSE IF a > 90 THEN SinTable[(180 - a) + 1]
    ELSE SinTable[a + 1]
CosDeg(a) == SinDeg(a + 90)

\* ------------------------------------------------------------- rectangles
\* pg.Rect: integer pixels; collidepoint is inclusive at left/top and
\* exclusive at right/bottom.  px, py are positions in position units.
Rect(x, y, w, h) == [x |-> x, y |-> y, w |-> w, h |-> h]
RectRight(r) == r.x + r.w
RectBottom(r) == r.y + r.h
RectCenterX(r) == r.x + r.w \div 2
Inflate(r, dx, dy) == Rect(r.x - dx \div 2, r.y - dy \div 2, r.w + dx, r.h + dy)
CollidePoint(r, px, py) ==
    /\ r.x * PX <= px /\ px < RectRight(r) * PX
    /\ r.y * PX <= py /\ py < RectBottom(r) * PX

\* ---------------------------------------------------------------- entities
\* Paddle (l.142-172): x in position units, vx in velocity units.
NewPaddle == [x |-> (LOGICAL_W \div 2) * PX, vx |-> 0]
PaddleRect(p) ==
    Rect(TDiv(p.x - (PADDLE_W \div 2) * PX, PX), PADDLE_Y - PADDLE_H \div 2,
         PADDLE_W, PADDLE_H)

\* Paddle.update, the acceleration, friction, speed clamp and move (l.154-164)
PaddleMove(p, dt, left, right) ==
    LET ax == (IF right THEN PADDLE_ACCEL ELSE 0) - (IF left THEN PADDLE_ACCEL ELSE 0)
        \* ax * dt: px/s^2 * ms, in velocity units
        v1 == p.vx + TDiv(ax * dt * VU, 1000)
        \* vx *= 1 - PADDLE_FRICTION * max(0, dt * FPS), PADDLE_FRICTION = 1e-6
        v2 == v1 - TDiv(v1 * dt * (FPS \div 40), 25000000)
        v3 == Max(-PADDLE_MAX_SPEED * VU, Min(PADDLE_MAX_SPEED * VU, v2))
    IN  [x |-> p.x + v3 * dt, vx |-> v3]

\* The walls without the right one.
PaddleWallsLeftOnly(p) ==
    IF p.x - (PADDLE_W \div 2) * PX < 0 THEN [x |-> (PADDLE_W \div 2) * PX, vx |-> 0] ELSE p

\* Paddle.update, the walls (l.166-172)
PaddleWalls(p) ==
    LET half == (PADDLE_W \div 2) * PX
        p1 == IF p.x - half < 0 THEN [x |-> half, vx |-> 0] ELSE p
    IN  IF p1.x + half > LOGICAL_W * PX THEN [x |-> LOGICAL_W * PX - half, vx |-> 0]
        ELSE p1

\* Paddle.update (l.153-172)
PaddleUpdate(p, dt, left, right) == PaddleWalls(PaddleMove(p, dt, left, right))

\* The rest position of a docked ball (l.440, l.465, l.484, l.511)
RestY == (PADDLE_Y - PADDLE_H \div 2 - BALL_RADIUS - 1) * PX
\* Ball(self.paddle.x, self.paddle.y - PADDLE_H//2 - BALL_RADIUS - 1, 0, 0, BALL_RADIUS, True)
NewBall(p) == [x |-> p.x, y |-> RestY, vx |-> 0, vy |-> 0, stuck |-> TRUE]

\* Ball.update (l.188-203)
BallUpdate(b, dt) ==
    IF b.stuck THEN b
    ELSE LET r == BALL_RADIUS * PX
             x1 == b.x + b.vx * dt
             y1 == b.y + b.vy * dt
             wl == x1 - r < 0
             x2 == IF wl THEN r ELSE x1
             vx2 == IF wl THEN Abs(b.vx) ELSE b.vx
             wr == x2 + r > LOGICAL_W * PX
             x3 == IF wr THEN LOGICAL_W * PX - r ELSE x2
             vx3 == IF wr THEN -Abs(vx2) ELSE vx2
             wt == y1 - r < 0
         IN  [b EXCEPT !.x = x3, !.vx = vx3,
                       !.y = IF wt THEN r ELSE y1,
                       !.vy = IF wt THEN Abs(b.vy) ELSE b.vy]

\* Brick (l.208-212): the rectangle's corner in pixels and the alive flag; the
\* colour is cosmetic and left out.
Brick(x, y) == [x |-> x, y |-> y, alive |-> TRUE]
BrickRect(b) == Rect(b.x, b.y, BRICK_W, BRICK_H)

\* ------------------------------------------------------------ level builder
\* build_level (l.224-283).  cells is the set of <<row, col>> cells for which
\* random.random() > 0.2 came out true; only the level >= 5 branch reads it.
GridLeft == (LOGICAL_W - (BRICK_COLS * BRICK_W + (BRICK_COLS - 1) * BRICK_GAP)) \div 2
CellBrick(row, col) ==
    Brick(GridLeft + col * (BRICK_W + BRICK_GAP), TOP_MARGIN + row * (BRICK_H + BRICK_GAP))
\* for row in range(rows): for col in range(BRICK_COLS)
RowMajor(rows) ==
    [i \in 1..(rows * BRICK_COLS) |-> <<(i - 1) \div BRICK_COLS, (i - 1) % BRICK_COLS>>]
CellsToBricks(cs) == [i \in 1..Len(cs) |-> CellBrick(cs[i][1], cs[i][2])]

RECURSIVE PyramidRows(_, _)
PyramidRows(row, acc) ==
    IF row >= BRICK_ROWS + 2 THEN acc
    ELSE LET cols_in_row == BRICK_COLS - row * 2
             row_w == cols_in_row * BRICK_W + (cols_in_row - 1) * BRICK_GAP
             row_left == (LOGICAL_W - row_w) \div 2
         IN  IF cols_in_row <= 0 THEN acc
             ELSE PyramidRows(row + 1,
                    acc \o [c \in 1..cols_in_row |->
                              Brick(row_left + (c - 1) * (BRICK_W + BRICK_GAP),
                                    TOP_MARGIN + row * (BRICK_H + BRICK_GAP))])

\* The other colour of the checkerboard.
OffChecker(c) == (c[1] + c[2]) % 2 = 1

\* if (row + col) % 2 == 0 (l.241)
OnChecker(c) == (c[1] + c[2]) % 2 = 0

build_level(level, cells) ==
    IF level = 1 THEN CellsToBricks(RowMajor(BRICK_ROWS))
    ELSE IF level = 2 THEN
        CellsToBricks(SelectSeq(RowMajor(BRICK_ROWS), OnChecker))
    ELSE IF level = 3 THEN PyramidRows(0, <<>>)
    ELSE IF level = 4 THEN
        \* for col in range(0, BRICK_COLS, 2): for row in range(BRICK_ROWS + 2)
        [i \in 1..((BRICK_COLS \div 2) * (BRICK_ROWS + 2)) |->
            CellBrick((i - 1) % (BRICK_ROWS + 2), 2 * ((i - 1) \div (BRICK_ROWS + 2)))]
    ELSE CellsToBricks(SelectSeq(RowMajor(BRICK_ROWS + 1), LAMBDA c : c \in cells))

\* Outcomes of the level-5 draw that the model explores: every cell, no cell,
\* and two cells, the top-left one with no brick below it and the last one of
\* the extra bottom row.
AllCells == {<<r, c>> : r \in 0..BRICK_ROWS, c \in 0..(BRICK_COLS - 1)}
RandomFields == {AllCells, {}, {<<0, 0>>, <<BRICK_ROWS, BRICK_COLS - 1>>}}

\* The draws a build_level(level) call makes: none below level 5.
FieldsFor(level) == IF level >= LAST_LEVEL THEN RandomFields ELSE {{}}

\* ------------------------------------------------------- collision helpers
\* The speed left as it is.
Uncapped(v) == v

\* min(BALL_MAX_SPEED, ...) of the two speed bumps (l.303, l.343)
CapSpeed(v) == Min(BALL_MAX_SPEED * VU, v)

\* reflect_ball_off_paddle (l.294-306)
reflect_ball_off_paddle(b, p) ==
    LET prect == PaddleRect(p)
        r == BALL_RADIUS * PX
        half == (PADDLE_W \div 2) * PX
    IN  IF b.vy > 0 /\ CollidePoint(prect, b.x, b.y + r)
        THEN LET d == b.x - RectCenterX(prect) * PX
                 \* rel = max(-1, min(1, d / half)); 150 * rel + 90 in whole degrees
                 rel == Max(-half, Min(half, d))
                 angle == TDiv(150 * rel, half) + 90
                 speed == CapSpeed(Hypot(b.vx, b.vy) + PADDLE_HIT_INC * VU)
             IN  [b EXCEPT !.y = prect.y * PX - r,
                           !.vx = TDiv(speed * CosDeg(angle), TRIG),
                           !.vy = -Abs(TDiv(speed * SinDeg(angle), TRIG))]
        ELSE b

\* The axis choice that resolves a tie horizontally.
HorizontalOnTie(minx, miny) == minx <= miny

\* if minx < miny: horizontal impact, else vertical (l.325)
Horizontal(minx, miny) == minx < miny

\* The rescale that loses the signs.
RederiveAbs(b, speed) ==
    LET h == HypotUp(b.vx, b.vy)
    IN  IF h = 0 THEN [b EXCEPT !.vx = speed, !.vy = 0]
        ELSE [b EXCEPT !.vx = TDiv(Abs(b.vx) * speed, h), !.vy = TDiv(Abs(b.vy) * speed, h)]

\* The velocity of the given speed along the ball's heading (l.344-346):
\* cos(atan2(vy, vx)) * speed = vx / hypot * speed; atan2(0, 0) = 0
Rederive(b, speed) ==
    LET h == HypotUp(b.vx, b.vy)
    IN  IF h = 0 THEN [b EXCEPT !.vx = speed, !.vy = 0]
        ELSE [b EXCEPT !.vx = TDiv(b.vx * speed, h), !.vy = TDiv(b.vy * speed, h)]

\* One iteration of ball_brick_collision's loop on a live, overlapping brick
\* (l.318-346): the ball after the axis resolution and the speed bump.
ResolveBrick(b, k) ==
    LET rect == BrickRect(k)
        r == BALL_RADIUS * PX
        dx_left == Abs(b.x - rect.x * PX)
        dx_right == Abs(RectRight(rect) * PX - b.x)
        dy_top == Abs(b.y - rect.y * PX)
        dy_bottom == Abs(RectBottom(rect) * PX - b.y)
        minx == Min(dx_left, dx_right)
        miny == Min(dy_top, dy_bottom)
        b1 == IF Horizontal(minx, miny)
              THEN IF dx_left < dx_right
                   THEN [b EXCEPT !.x = rect.x * PX - r, !.vx = -Abs(b.vx)]
                   ELSE [b EXCEPT !.x = RectRight(rect) * PX + r, !.vx = Abs(b.vx)]
              ELSE IF dy_top < dy_bottom
                   THEN [b EXCEPT !.y = rect.y * PX - r, !.vy = -Abs(b.vy)]
                   ELSE [b EXCEPT !.y = RectBottom(rect) * PX + r, !.vy = Abs(b.vy)]
    IN  Rederive(b1, CapSpeed(Hypot(b1.vx, b1.vy) + BALL_SPEED_INC_ON_HIT * VU))

\* The test that lets a dead brick through.
OverlapsAny(b, k) ==
    CollidePoint(Inflate(BrickRect(k), BALL_RADIUS * 2, BALL_RADIUS * 2), b.x, b.y)

\* The test of ball_brick_collision's loop (l.313-317): brick k is alive and
\* the ball's centre is inside its rectangle grown by the radius.
Overlaps(b, k) ==
    /\ k.alive
    /\ CollidePoint(Inflate(BrickRect(k), BALL_RADIUS * 2, BALL_RADIUS * 2), b.x, b.y)

\* ball_brick_collision (l.309-349): the loop from brick i on, taken from one
\* brick that passes the test to the next; the result is the ball, the bricks
\* and the hit count.
RECURSIVE CollideFrom(_, _, _, _)
CollideFrom(i, b, bs, hits) ==
    LET over == {j \in i..Len(bs) : Overlaps(b, bs[j])}
    IN  IF over = {} THEN [ball |-> b, bricks |-> bs, hits |-> hits]
        ELSE LET j == CHOOSE j \in over : \A k \in over : j <= k
             IN  CollideFrom(j + 1, ResolveBrick(b, bs[j]),
                             [bs EXCEPT ![j].alive = FALSE], hits + 1)
\* The pass that reports whether a brick was hit instead of how many.
ball_brick_collision_flag(b, bs) ==
    LET c == CollideFrom(1, b, bs, 0) IN [c EXCEPT !.hits = Min(1, c.hits)]

ball_brick_collision(b, bs) == CollideFrom(1, b, bs, 0)

\* ------------------------------------------------------------------- state
\* Fields of Game (l.398-445).  Before the first start_level the session
\* attributes are not set: level = 0 stands for that.  bg_color follows state
\* and level and is cosmetic.
VARIABLES
    state,            \* self.state
    unlocked_level,   \* self.unlocked_level
    level,            \* self.level
    lives,            \* self.lives
    score,            \* self.score
    bricks,           \* self.bricks
    paddle,           \* self.paddle
    ball,             \* self.ball
    paused,           \* self.paused
    player_name,      \* self.player_name, a sequence of characters
    final_message,    \* self.final_message
    sent,             \* the calls of send_score_to_server since the session began
    reached,          \* the highest level that has been self.level so far
    tk,               \* what the last step did, if it was a simulation tick
    ticks,            \* simulation ticks of the current ball in flight
    balls             \* balls created since the session began

vars == <<state, unlocked_level, level, lives, score, bricks, paddle, ball, paused,
          player_name, final_message, sent, reached, tk, ticks, balls>>

\* The session and simulation fields (everything but the history variables).
game == <<state, unlocked_level, level, lives, score, bricks, paddle, ball, paused,
          player_name, final_message>>

NoTick == [tick |-> FALSE, lost |-> FALSE, cleared |-> FALSE, hits |-> 0]
NoSession == level = 0
Anonymous == <<"A", "n", "o", "n", "y", "m", "o", "u", "s">>

\* Game.__init__ (l.399-416)
Init ==
    /\ state = STATE_MENU
    /\ unlocked_level = 1
    /\ level = 0
    /\ lives = 0
    /\ score = 0
    /\ bricks = <<>>
    /\ paddle = NewPaddle
    /\ ball = NewBall(NewPaddle)
    /\ paused = FALSE
    /\ player_name = <<>>
    /\ final_message = ""
    /\ sent = <<>>
    /\ reached = 0
    /\ tk = NoTick
    /\ ticks = 0
    /\ balls = 0

\* Game.start_level (l.434-445)
start_level(level_num, cells) ==
    /\ level' = level_num
    /\ lives' = LIVES_START
    /\ score' = 0
    /\ bricks' = build_level(level_num, cells)
    /\ paddle' = NewPaddle
    /\ ball' = NewBall(NewPaddle)
    /\ state' = STATE_PLAYING
    /\ paused' = FALSE
    /\ player_name' = <<>>
    /\ final_message' = ""
    /\ sent' = <<>>
    /\ reached' = Max(reached, level_num)
    /\ ticks' = 0
    /\ balls' = 1

\* The gate off by one: the first locked level can be started.
SelectableOffByOne(lvl) == lvl <= unlocked_level + 1

\* The level gate of the menu click (l.639)
Selectable(lvl) == lvl <= unlocked_level

\* handle_event, MOUSEBUTTONDOWN (l.632-640): a left click on the button of
\* level lvl; the buttons do not overlap, lvl = 0 is a click beside them.
MouseDown(lvl) ==
    /\ state = STATE_MENU
    /\ tk' = NoTick
    /\ IF lvl >= 1 /\ Selectable(lvl)
       THEN /\ \E cells \in FieldsFor(lvl) : start_level(lvl, cells)
            /\ UNCHANGED unlocked_level
       ELSE UNCHANGED <<game, sent, reached, ticks, balls>>

\* handle_event, K_ESCAPE or K_m while playing (l.647-649)
KeyMenuExit ==
    /\ state = STATE_PLAYING
    /\ state' = STATE_MENU
    /\ tk' = NoTick
    /\ UNCHANGED <<unlocked_level, level, lives, score, bricks, paddle, ball, paused,
                   player_name, final_message, sent, reached, ticks, balls>>

\* Game.launch_ball (l.447-453)
launch_ball(b, angle) ==
    IF ~b.stuck THEN b
    ELSE [b EXCEPT !.vx = TDiv(BALL_SPEED * VU * CosDeg(angle), TRIG),
                   !.vy = -Abs(TDiv(BALL_SPEED * VU * SinDeg(angle), TRIG)),
                   !.stuck = FALSE]

\* handle_event, K_SPACE while playing (l.650-651)
KeySpace ==
    /\ state = STATE_PLAYING
    /\ \E angle \in LaunchAngles : ball' = launch_ball(ball, angle)
    /\ tk' = NoTick
    /\ UNCHANGED <<state, unlocked_level, level, lives, score, bricks, paddle, paused,
                   player_name, final_message, sent, reached, ticks, balls>>

\* handle_event, K_p while playing (l.652-653)
KeyP ==
    /\ state = STATE_PLAYING
    /\ paused' = ~paused
    /\ tk' = NoTick
    /\ UNCHANGED <<state, unlocked_level, level, lives, score, bricks, paddle, ball,
                   player_name, final_message, sent, reached, ticks, balls>>

\* The F10 cheat's brick list (l.655-660): the first brick, moved above the paddle
Cheat(bs, p) ==
    IF bs = <<>> THEN bs
    ELSE << [bs[1] EXCEPT !.x = TDiv(p.x, PX) - BRICK_W \div 2,
                          !.y = (PADDLE_Y - CHEAT_DROP) - BRICK_H] >>

\* handle_event, K_F10 while playing (l.654-661)
KeyF10 ==
    /\ state = STATE_PLAYING
    /\ bricks' = Cheat(bricks, paddle)
    /\ tk' = NoTick
    /\ UNCHANGED <<state, unlocked_level, level, lives, score, paddle, ball, paused,
                   player_name, final_message, sent, reached, ticks, balls>>

\* The submit that stays on the name screen.
AfterSubmitStays == STATE_INPUT_NAME

\* The state after the submit (l.669)
AfterSubmit == STATE_GAME_OVER

\* The name sent as it was typed.
SubmitNameRaw(name) == name

\* The name that is stored and sent (l.666-667)
SubmitName(name) == IF name = <<>> THEN Anonymous ELSE name

\* send_score_to_server (l.354-386) only reports: the request goes out, or it
\* fails (window.eval or json.dumps raises, the fetch is rejected).
SendOutcomes == {"sent", "failed"}

\* The failure that reaches the caller.
RaisesOnFailure(outcome) == outcome = "failed"

\* What send_score_to_server raises: nothing, the call is made in a try whose
\* handler only logs (l.360-383) and the rejected fetch is caught in its own
\* .catch (l.374).
Raises(outcome) == FALSE

\* handle_event, K_RETURN (l.663-669); the key has no branch in another state.
\* The call of send_score_to_server is recorded in sent; an exception would
\* leave the handler before l.669.
KeyReturn ==
    /\ tk' = NoTick
    /\ IF state = STATE_INPUT_NAME
       THEN \E outcome \in SendOutcomes :
                LET name == SubmitName(player_name)
                IN  /\ player_name' = name
                    /\ sent' = Append(sent, [name |-> name, score |-> score,
                                             outcome |-> outcome])
                    /\ state' = IF Raises(outcome) THEN state ELSE AfterSubmit
                    /\ UNCHANGED <<unlocked_level, level, lives, score, bricks, paddle,
                                   ball, paused, final_message, reached, ticks, balls>>
       ELSE UNCHANGED <<game, sent, reached, ticks, balls>>

\* handle_event, K_BACKSPACE during name entry (l.670-671)
KeyBackspace ==
    /\ state = STATE_INPUT_NAME
    /\ player_name' = IF player_name = <<>> THEN <<>>
                      ELSE SubSeq(player_name, 1, Len(player_name) - 1)
    /\ tk' = NoTick
    /\ UNCHANGED <<state, unlocked_level, level, lives, score, bricks, paddle, ball,
                   paused, final_message, sent, reached, ticks, balls>>

\* e.unicode of the other keys: a printable character, a control character
\* (not printable) and the empty string of a key without text.
Unicodes == {"a", "\t", ""}
IsPrintable(u) == u # "\t"

\* The length test that lets one character too many in.
UnderCapInclusive(name) == Len(name) <= NAME_CAP

\* len(self.player_name) < 12 (l.673)
UnderCap(name) == Len(name) < NAME_CAP

\* handle_event, any other key during name entry (l.672-674)
KeyOther(u) ==
    /\ state = STATE_INPUT_NAME
    /\ player_name' = IF UnderCap(player_name) /\ IsPrintable(u)
                      THEN (IF u = "" THEN player_name ELSE Append(player_name, u))
                      ELSE player_name
    /\ tk' = NoTick
    /\ UNCHANGED <<state, unlocked_level, level, lives, score, bricks, paddle, ball,
                   paused, final_message, sent, reached, ticks, balls>>

\* handle_event, K_m on the game-over screen (l.676-680)
KeyReturnToMenu ==
    /\ state = STATE_GAME_OVER
    /\ state' = STATE_MENU
    /\ tk' = NoTick
    /\ UNCHANGED <<unlocked_level, level, lives, score, bricks, paddle, ball, paused,
                   player_name, final_message, sent, reached, ticks, balls>>

\* ------------------------------------------------------------ the frame step
\* The fields Game.update works on, as a record.
Session ==
    [state |-> state, unlocked_level |-> unlocked_level, level |-> level,
     lives |-> lives, score |-> score, bricks |-> bricks, paddle |-> paddle,
     ball |-> ball, final_message |-> final_message, fresh |-> FALSE]

\* The ball frozen where it is (l.460-462, l.517-519)
Frozen(b) == [b EXCEPT !.vx = 0, !.vy = 0, !.stuck = TRUE]

\* Game.lose_life (l.455-465); fresh records that a new Ball was created.
lose_life(s) ==
    LET n == s.lives - 1
    IN  IF n = 0
        THEN [s EXCEPT !.lives = n, !.state = STATE_INPUT_NAME,
                       !.ball = Frozen(s.ball), !.final_message = "GAME OVER"]
        ELSE [s EXCEPT !.lives = n, !.ball = NewBall(s.paddle), !.fresh = TRUE]

\* The ball is free and wholly below the bottom edge (l.492)
BallLost(b) == ~b.stuck /\ b.y - BALL_RADIUS * PX > LOGICAL_H * PX

\* all(not b.alive for b in self.bricks) (l.495)
AllDead(bs) == \A i \in 1..Len(bs) : ~bs[i].alive

\* The unlock without its comparison.
UnlockAlways(unl, next_lvl) == next_lvl

\* The unlock step of a completed level (l.500-502)
Unlock(unl, next_lvl) == IF next_lvl > unl THEN next_lvl ELSE unl

\* The level-complete branch of Game.update (l.496-519)
level_complete(s, cells) ==
    LET next_lvl == s.level + 1
        s1 == [s EXCEPT !.unlocked_level = Unlock(s.unlocked_level, next_lvl)]
    IN  IF next_lvl <= LAST_LEVEL
        THEN [s1 EXCEPT !.level = next_lvl, !.lives = s.lives + 1,
                        !.bricks = build_level(next_lvl, cells),
                        !.ball = NewBall(s.paddle), !.fresh = TRUE]
        ELSE [s1 EXCEPT !.state = STATE_INPUT_NAME, !.final_message = "VICTORY!",
                        !.ball = Frozen(s.ball)]

\* The ball step of Game.update (l.482-486): a docked ball follows the paddle.
ball_step(b, p, dt) ==
    IF b.stuck THEN [b EXCEPT !.x = p.x, !.y = RestY] ELSE BallUpdate(b, dt)

\* Game.update past its early returns (l.477-519), with the frame's outcome:
\* s is the session after the step.
update(s, dt, left, right, cells) ==
    LET p1 == PaddleUpdate(s.paddle, dt, left, right)
        b1 == ball_step(s.ball, p1, dt)
        b2 == reflect_ball_off_paddle(b1, p1)
        c == ball_brick_collision(b2, s.bricks)
        s1 == [s EXCEPT !.paddle = p1, !.ball = c.ball, !.bricks = c.bricks,
                        !.score = s.score + c.hits * BRICK_REWARD]
        lost == BallLost(c.ball)
        s2 == IF lost THEN lose_life(s1) ELSE s1
        cleared == AllDead(s2.bricks)
        s3 == IF cleared THEN level_complete(s2, cells) ELSE s2
    IN  [s |-> s3, lost |-> lost, cleared |-> cleared, hits |-> c.hits]

\* The draws the step can make: those of build_level for the next level.
TickFields == FieldsFor(level + 1)

\* Game.update (l.467-519), one frame with frame time dt and the polled keys.
\* Outside PLAYING and while paused it returns at once (l.468-475).
Tick(dt, left, right) ==
    IF state # STATE_PLAYING \/ paused
    THEN UNCHANGED vars
    ELSE /\ balls <= MaxBalls
         /\ ball.stuck \/ ticks < MaxTicks
         /\ \E cells \in TickFields :
              \E u \in {update(Session, dt, left, right, cells)} :
                  /\ state' = u.s.state
                  /\ unlocked_level' = u.s.unlocked_level
                  /\ level' = u.s.level
                  /\ lives' = u.s.lives
                  /\ score' = u.s.score
                  /\ bricks' = u.s.bricks
                  /\ paddle' = u.s.paddle
                  /\ ball' = u.s.ball
                  /\ final_message' = u.s.final_message
                  /\ reached' = Max(reached, u.s.level)
                  /\ tk' = [tick |-> TRUE, lost |-> u.lost, cleared |-> u.cleared,
                            hits |-> u.hits]
                  /\ balls' = IF u.s.fresh THEN balls + 1 ELSE balls
                  /\ ticks' = IF u.s.fresh \/ u.s.state # STATE_PLAYING THEN 0
                              ELSE IF ball.stuck THEN ticks ELSE ticks + 1
         /\ UNCHANGED <<paused, player_name, sent>>

\* The main loop (l.688-699): the frame's events, then the frame step.  pg.QUIT,
\* and K_ESCAPE in the menu or on the game-over screen, end the process: no step
\* follows them.
Next ==
    \/ \E lvl \in 0..LAST_LEVEL : MouseDown(lvl)
    \/ KeyMenuExit
    \/ KeySpace
    \/ KeyP
    \/ KeyF10
    \/ KeyReturn
    \/ KeyBackspace
    \/ \E u \in Unicodes : KeyOther(u)
    \/ KeyReturnToMenu
    \/ \E f \in Frames : Tick(f[1], f[2], f[3])

Spec == Init /\ [][Next]_vars

\* ----------------------------------------------------- Paddle.update alone
\* Paddle.update applied once to a paddle inside the field, for each frame
\* time and each combination of the direction keys.
PaddleXs == {55, 56, 100, 400, 700, 744, 745}
PaddleVs == {-6500, -3000, -10, 0, 10, 3000, 6500}
PaddleDts == {0, 8, 240, 2000}

\* A level-1 session in play (start_level) with the given paddle.
InPlay(p) ==
    /\ state = STATE_PLAYING
    /\ unlocked_level = 1
    /\ level = 1
    /\ lives = LIVES_START
    /\ score = 0
    /\ paddle = p
    /\ paused = FALSE
    /\ player_name = <<>>
    /\ final_message = ""
    /\ sent = <<>>
    /\ reached = 1
    /\ tk = NoTick
    /\ ticks = 0
    /\ balls = 1

PaddleInit ==
    /\ \E x \in PaddleXs, v \in PaddleVs : InPlay([x |-> x * PX, vx |-> v])
    /\ bricks = build_level(1, {})
    /\ ball = NewBall(paddle)

\* self.paddle.update(dt, left, right) (l.480)
PaddleStep ==
    /\ ticks = 0
    /\ \E dt \in PaddleDts, left \in BOOLEAN, right \in BOOLEAN :
         paddle' = PaddleUpdate(paddle, dt, left, right)
    /\ ticks' = 1
    /\ UNCHANGED <<state, unlocked_level, level, lives, score, bricks, ball, paused,
                   player_name, final_message, sent, reached, tk, balls>>

PaddleSpec == PaddleInit /\ [][PaddleStep]_vars

\* ------------------------------------------------- the ball's steps alone
\* The steps that set the ball's velocity, each applied alone to balls in flight
\* near the paddle and near the first brick of the level-2 field, and to the
\* docked ball.  A ball in flight has no component of velocity that is zero:
\* launch_ball and the reflections set both from a sine and a cosine.
BenchPaddle == NewPaddle
\* ball positions in pixels, relative to the paddle's centre and top
PaddleDxs == {-55, -44, -33, -20, 0, 20, 33, 54}
PaddleDys == {-4, 4}
\* ball positions in pixels around the brick at (42, 80)
BrickXs == {35, 47, 70, 93, 105}
BrickYs == {73, 85, 92, 99, 110}
\* velocities, in velocity units: slow, fast, and close to BALL_MAX_SPEED
BenchVxs == {-2000, 1500}
BenchVys == {-3400, 3400, 7950}
BenchAngles == {45, 60, 90, 120, 135}
BenchDts == {8, 240}

BenchPositions ==
    {<<BenchPaddle.x + dx * PX, (PADDLE_Y - PADDLE_H \div 2 - BALL_RADIUS + dy) * PX>> :
        dx \in PaddleDxs, dy \in PaddleDys}
    \cup {<<x * PX, y * PX>> : x \in BrickXs, y \in BrickYs}

BenchBalls ==
    {[x |-> q[1], y |-> q[2], vx |-> vx, vy |-> vy, stuck |-> FALSE] :
        q \in BenchPositions, vx \in BenchVxs, vy \in BenchVys}
    \cup {NewBall(BenchPaddle)}

BallInit ==
    /\ InPlay(BenchPaddle)
    /\ bricks = build_level(2, {})
    /\ ball \in BenchBalls

BenchRest ==
    UNCHANGED <<state, unlocked_level, level, lives, paddle, paused, player_name,
                final_message, sent, reached, tk, balls>>

\* reflect_ball_off_paddle(self.ball, self.paddle, self.sfx) (l.487)
BenchReflect ==
    /\ ticks < MaxTicks
    /\ ball' = reflect_ball_off_paddle(ball, paddle)
    /\ ticks' = ticks + 1
    /\ UNCHANGED <<bricks, score>>
    /\ BenchRest

\* got = ball_brick_collision(...); self.score += got * 10 (l.488-490)
BenchCollide ==
    /\ ticks < MaxTicks
    /\ \E c \in {ball_brick_collision(ball, bricks)} :
         /\ ball' = c.ball
         /\ bricks' = c.bricks
         /\ score' = score + c.hits * BRICK_REWARD
    /\ ticks' = ticks + 1
    /\ BenchRest

\* self.launch_ball() (l.651)
BenchLaunch ==
    /\ ticks < MaxTicks
    /\ \E angle \in BenchAngles : ball' = launch_ball(ball, angle)
    /\ ticks' = ticks + 1
    /\ UNCHANGED <<bricks, score>>
    /\ BenchRest

\* self.ball.update(dt) (l.486)
BenchFly ==
    /\ ticks < MaxTicks
    /\ \E dt \in BenchDts : ball' = BallUpdate(ball, dt)
    /\ ticks' = ticks + 1
    /\ UNCHANGED <<bricks, score>>
    /\ BenchRest

ReflectSpec == BallInit /\ [][BenchReflect]_vars
CollideSpec == BallInit /\ [][BenchCollide]_vars
BallNext == BenchLaunch \/ BenchFly \/ BenchReflect \/ BenchCollide
BallSpec == BallInit /\ [][BallNext]_vars

\* -------------------------------------------------------- build_level alone
\* The menu with any of the levels unlocked, and a click on a level's button;
\* the draw of build_level is any of RandomFields or a single cell, at every
\* level, though only the last level's branch reads it.
LevelFields == RandomFields \cup {{cell} : cell \in AllCells}

LevelInit ==
    /\ state = STATE_MENU
    /\ unlocked_level \in 1..LAST_LEVEL
    /\ level = 0 /\ lives = 0 /\ score = 0
    /\ bricks = <<>>
    /\ paddle = NewPaddle
    /\ ball = NewBall(NewPaddle)
    /\ paused = FALSE
    /\ player_name = <<>>
    /\ final_message = ""
    /\ sent = <<>> /\ reached = 0 /\ tk = NoTick /\ ticks = 0 /\ balls = 0

\* self.start_level(i + 1) of the menu click (l.639-640)
LevelStart ==
    /\ state = STATE_MENU
    /\ \E lvl \in 1..LAST_LEVEL :
           /\ Selectable(lvl)
           /\ \E cells \in LevelFields : start_level(lvl, cells)
    /\ tk' = NoTick
    /\ UNCHANGED unlocked_level

LevelSpec == LevelInit /\ [][LevelStart]_vars

\* ================================================================== claims
AliveFlags(bs) == [i \in 1..Len(bs) |-> bs[i].alive]
AllAlive(bs) == \A i \in 1..Len(bs) : bs[i].alive
Docked(b) == b.stuck /\ b.vx = 0 /\ b.vy = 0
\* The step just taken was a simulation tick (Game.update past its returns).
Ticked == tk'.tick

\* C1: a terminal session triggers send_score_to_server at most once: no call
\* has been made while the name is being entered, exactly one has been made
\* on the game-over screen, and no later key adds another before the next
\* start_level.
C1_SubmitOnce ==
    /\ Len(sent) <= 1
    /\ state = STATE_INPUT_NAME => sent = <<>>
    /\ state = STATE_GAME_OVER => Len(sent) = 1
C1_Witness == state = STATE_GAME_OVER /\ Len(sent) = 1 /\ player_name = Anonymous

\* C2: unlocked_level never decreases, whatever the step.
C2_UnlockMonotone == [][unlocked_level' >= unlocked_level]_vars
\* a level below the high-water mark has been replayed and cleared
C2_Witness ==
    /\ state = STATE_PLAYING /\ level = 2 /\ unlocked_level >= 3
    /\ tk.tick /\ tk.cleared

\* C3: unlocked_level is the highest level that has ever been the current
\* level, or 1 when no level has been started.
C3_HighWater == unlocked_level = Max(1, reached)

\* C4: a tick in which the free ball falls below the bottom edge with lives = 1
\* ends with lives = 0, in INPUT_NAME, with the message GAME OVER and the ball
\* docked at zero velocity.
C4_LastLife ==
    [][(Ticked /\ tk'.lost /\ lives = 1) =>
         /\ lives' = 0
         /\ state' = STATE_INPUT_NAME
         /\ final_message' = "GAME OVER"
         /\ Docked(ball')]_vars

\* C5: a tick in which the free ball falls below the bottom edge with lives > 1
\* takes exactly one life, stays in PLAYING, replaces the ball by a fresh
\* docked ball and leaves level, bricks, score and unlocked_level as they were.
C5_LifeLoss ==
    [][(Ticked /\ tk'.lost /\ lives > 1) =>
         /\ lives' = lives - 1
         /\ state' = STATE_PLAYING
         /\ ball' = NewBall(paddle')
         /\ level' = level
         /\ AliveFlags(bricks') = AliveFlags(bricks)
         /\ score' = score
         /\ unlocked_level' = unlocked_level]_vars

\* C6: a tick that ends with every brick dead on a level below the last one
\* advances: level + 1, lives + 1, the new level's fresh field, a docked ball at
\* the paddle's centre, still PLAYING, unlocked_level at least the new level.
C6_Advance ==
    [][(Ticked /\ tk'.cleared /\ level < LAST_LEVEL) =>
         /\ level' = level + 1
         /\ lives' = lives + 1
         /\ \E cells \in FieldsFor(level + 1) : bricks' = build_level(level + 1, cells)
         /\ ball' = NewBall(paddle')
         /\ state' = STATE_PLAYING
         /\ unlocked_level' >= level']_vars

\* C7: a tick that ends with every brick of the last level dead goes to
\* INPUT_NAME with the message VICTORY!, the ball docked at zero velocity, and
\* level and lives as they were before the tick.
C7_Victory ==
    [][(Ticked /\ tk'.cleared /\ level = LAST_LEVEL) =>
         /\ state' = STATE_INPUT_NAME
         /\ final_message' = "VICTORY!"
         /\ Docked(ball')
         /\ level' = level
         /\ lives' = lives]_vars

\* C8: a step out of the menu either changes no field of the game or starts a
\* level N <= unlocked_level with score 0, LIVES_START lives, the fresh field
\* of N with every brick alive, a docked ball at zero velocity on the paddle,
\* the pause flag off and an empty name; a locked level is never started.
C8_Start ==
    [][state = STATE_MENU =>
         \/ UNCHANGED game
         \/ /\ state' = STATE_PLAYING
            /\ level' \in 1..unlocked_level
            /\ unlocked_level' = unlocked_level
            /\ score' = 0
            /\ lives' = LIVES_START
            /\ \E cells \in FieldsFor(level') : bricks' = build_level(level', cells)
            /\ AllAlive(bricks')
            /\ ball' = NewBall(paddle') /\ Docked(ball')
            /\ ~paused'
            /\ player_name' = <<>>]_vars
\* level 3 started from the menu while levels 4 and 5 are locked
C8_Witness ==
    /\ state = STATE_PLAYING /\ level = 3 /\ unlocked_level = 3
    /\ score = 0 /\ lives = LIVES_START /\ balls = 1 /\ ball.stuck /\ Len(bricks) > 1

\* C9: while paused in PLAYING, a step that leaves the game paused in PLAYING
\* (so neither the unpause nor the menu exit) changes none of paddle, ball,
\* bricks, score, lives and level.
C9_PauseFreezes ==
    [][(state = STATE_PLAYING /\ paused /\ state' = STATE_PLAYING /\ paused') =>
         UNCHANGED <<paddle, ball, bricks, score, lives, level>>]_vars

\* C10: whenever a ball exists and is docked, its velocity is (0, 0), its x is
\* the paddle's x and its y is the rest position above the paddle.
C10_DockedOnPaddle ==
    (~NoSession /\ ball.stuck) =>
        /\ ball.vx = 0 /\ ball.vy = 0
        /\ ball.x = paddle.x /\ ball.y = RestY

AliveCount(bs) == Cardinality({i \in 1..Len(bs) : bs[i].alive})
\* The step starts a session from the menu (start_level).
Starts == state = STATE_MENU /\ state' = STATE_PLAYING

\* C11: a tick adds to the score exactly 10 for each brick that died in it (all
\* the live bricks, when the tick completes the level), and no other step
\* changes the score but the start of a session, which resets it.
C11_ScorePerBrick ==
    [][IF Ticked
       THEN score' = score + 10 * (IF tk'.cleared THEN AliveCount(bricks)
                                   ELSE AliveCount(bricks) - AliveCount(bricks'))
       ELSE score' = score \/ (Starts /\ score' = 0)]_vars
\* a tick that destroyed two bricks at once
C11_Witness == tk.tick /\ tk.hits = 2 /\ ~tk.cleared /\ AliveCount(bricks) = Len(bricks) - 2

\* The ball's centre is inside brick k's rectangle grown by the radius.
Touches(b, k) ==
    /\ (k.x - BALL_RADIUS) * PX <= b.x /\ b.x < (k.x + BRICK_W + BALL_RADIUS) * PX
    /\ (k.y - BALL_RADIUS) * PX <= b.y /\ b.y < (k.y + BRICK_H + BALL_RADIUS) * PX
\* The tick replaces the field by the next level's.
Advances == Ticked /\ tk'.cleared /\ level' # level

\* C12: within a level instance no step makes a dead brick alive, and the
\* collision pass skips dead bricks: a tick counts as hits exactly the bricks
\* that died in it, and when the moved ball touches no live brick the tick has
\* no hit and leaves the ball as the move (and the paddle) left it.
C12_DeadStaysDead ==
    [][/\ (~Starts /\ ~Advances) =>
            /\ Len(bricks') <= Len(bricks)
            /\ \A i \in 1..Len(bricks') : bricks'[i].alive => bricks[i].alive
       /\ (Ticked /\ ~Advances) => tk'.hits = AliveCount(bricks) - AliveCount(bricks')
       /\ Ticked =>
            \E f \in Frames :
                LET b2 == reflect_ball_off_paddle(ball_step(ball, paddle', f[1]), paddle')
                IN  (\A i \in 1..Len(bricks) : ~(bricks[i].alive /\ Touches(b2, bricks[i])))
                        => /\ tk'.hits = 0
                           /\ ball' \in {b2, Frozen(b2), NewBall(paddle')}]_vars
\* a tick whose ball ends inside the dead brick that F10 kept, untouched by it
C12_Witness ==
    /\ tk.tick /\ tk.hits = 0 /\ ~tk.lost /\ final_message = "VICTORY!"
    /\ Len(bricks) = 1 /\ ~bricks[1].alive /\ Touches(ball, bricks[1])
    /\ ball.y # RestY

\* C13: the submit passes the name as entered, or Anonymous for an empty name,
\* and the score the session ended with: no step of the name entry changes
\* the score.
C13_SubmittedPair ==
    [][state = STATE_INPUT_NAME =>
         /\ score' = score
         /\ sent' # sent =>
              /\ Len(sent') = 1
              /\ sent'[1].name = (IF player_name = <<>> THEN Anonymous ELSE player_name)
              /\ sent'[1].score = score]_vars
\* a typed name and a positive score were submitted
C13_Witness ==
    /\ state = STATE_GAME_OVER /\ Len(sent) = 1
    /\ sent[1].name = <<"a", "a">> /\ sent[1].score = 2 * BRICK_REWARD

\* C14: the submit goes to GAME_OVER and leaves score, lives, level and
\* unlocked_level alone whether the call went out or failed.
C14_SubmitNeverBlocks ==
    [][(state = STATE_INPUT_NAME /\ sent' # sent) =>
         /\ state' = STATE_GAME_OVER
         /\ UNCHANGED <<score, lives, level, unlocked_level>>]_vars
\* a submit whose call failed
C14_Witness ==
    /\ state = STATE_GAME_OVER /\ Len(sent) = 1 /\ sent[1].outcome = "failed"
    /\ sent[1].score > 0

\* The name without its last character.
Front(name) == IF name = <<>> THEN <<>> ELSE SubSeq(name, 1, Len(name) - 1)

\* C18: the entered name never has more than NAME_CAP characters, and a step
\* that stays in the name entry sends nothing and either leaves the name,
\* appends one printable character to a name below the cap, or removes the
\* last character.
C18_NameCapped ==
    /\ [](Len(player_name) <= NAME_CAP)
    /\ [][(state = STATE_INPUT_NAME /\ state' = STATE_INPUT_NAME) =>
            /\ sent' = sent
            /\ \/ player_name' = player_name
               \/ player_name' = Front(player_name)
               \/ /\ Len(player_name) < NAME_CAP
                  /\ \E u \in Unicodes \ {"\t", ""} :
                        player_name' = Append(player_name, u)]_vars
\* a name at the cap, during the entry
C18_Witness == state = STATE_INPUT_NAME /\ Len(player_name) = NAME_CAP

\* The paddle reaches outside the field.
OutOfField(p) ==
    \/ p.x - (PADDLE_W \div 2) * PX < 0
    \/ p.x + (PADDLE_W \div 2) * PX > LOGICAL_W * PX

\* C15: after Paddle.update the paddle lies inside the field, whatever the
\* prior in-bounds state, the frame time and the keys; when the move had taken
\* it outside (a wall clamp applied) its velocity is 0.
C15_PaddleInside ==
    /\ [](~OutOfField(paddle))
    /\ [][\A dt \in PaddleDts, left \in BOOLEAN, right \in BOOLEAN :
            LET m == PaddleMove(paddle, dt, left, right)
            IN  (OutOfField(m) /\ paddle' = PaddleWalls(m)) => paddle'.vx = 0]_vars
\* the paddle stopped at the right wall
C15_Witness == ticks = 1 /\ paddle = [x |-> (LOGICAL_W - PADDLE_W \div 2) * PX, vx |-> 0]

Speed(b) == Hypot(b.vx, b.vy)
\* Bricks that died in the step.
Died == AliveCount(bricks) - AliveCount(bricks')
\* The speeds are compared to the resolution of the fixed point, a fifth of a
\* pixel per second for each rescaling of the velocity.
Resolution == VU \div 5
Near(a, b, n) == b - n * Resolution <= a /\ a <= b

\* C16: a free ball's speed is never above BALL_MAX_SPEED: a launch sets it to
\* BALL_SPEED, a paddle reflection to min(BALL_MAX_SPEED, speed + 6), each
\* brick hit to min(BALL_MAX_SPEED, speed + 4), and nothing else changes it.
C16_SpeedCapped ==
    /\ [](~ball.stuck => Speed(ball) <= BALL_MAX_SPEED * VU)
    /\ [][IF ball.stuck
           THEN ball'.stuck \/ Near(Speed(ball'), BALL_SPEED * VU, 1)
           ELSE \/ Died = 0 /\ Speed(ball') = Speed(ball)
                \/ Died = 0 /\ Near(Speed(ball'),
                                     Min(BALL_MAX_SPEED * VU,
                                         Speed(ball) + PADDLE_HIT_INC * VU), 1)
                \/ Died > 0 /\ Near(Speed(ball'),
                                     Min(BALL_MAX_SPEED * VU,
                                         Speed(ball) + Died * BALL_SPEED_INC_ON_HIT * VU),
                                     Died)]_vars
\* a fast ball held at the maximum by a brick hit
C16_Witness ==
    /\ ~ball.stuck /\ score > 0
    /\ Near(Speed(ball), BALL_MAX_SPEED * VU, 1)

\* C17: a paddle reflection sends the ball upward at 15 to 165 degrees from
\* the horizontal: the vertical component is negative and at least sin(15
\* degrees) of the speed, and a hit on the paddle's centre goes straight up.
C17_ReflectAngle ==
    [][ball' # ball =>
         /\ ball'.vy < 0
         /\ -ball'.vy * 1000 >= (SinDeg(15) \div 100) * Speed(ball') - 1000
         /\ ball.x = RectCenterX(PaddleRect(paddle)) * PX => ball'.vx = 0]_vars

\* The brick the step killed, when it killed one.
Killed == CHOOSE i \in 1..Len(bricks) : bricks[i].alive /\ ~bricks'[i].alive
DxLeft(b, k) == Abs(b.x - k.x * PX)
DxRight(b, k) == Abs((k.x + BRICK_W) * PX - b.x)
DyTop(b, k) == Abs(b.y - k.y * PX)
DyBottom(b, k) == Abs((k.y + BRICK_H) * PX - b.y)
\* The edge the claim's rule picks: horizontal strictly when minx < miny.
Side(b, k) ==
    IF Min(DxLeft(b, k), DxRight(b, k)) < Min(DyTop(b, k), DyBottom(b, k))
    THEN (IF DxLeft(b, k) < DxRight(b, k) THEN "left" ELSE "right")
    ELSE (IF DyTop(b, k) < DyBottom(b, k) THEN "top" ELSE "bottom")
SameSign(a, b) == (a > 0 /\ b > 0) \/ (a < 0 /\ b < 0)

\* C19: a hit is resolved horizontally exactly when minx < miny, and then only
\* x and the sign of vx change, the ball put outside the nearer vertical edge;
\* otherwise (a tie too) only y and the sign of vy change, the ball put outside
\* the nearer horizontal edge.
C19_AxisChoice ==
    [][Died = 1 =>
         LET k == bricks[Killed]
             side == Side(ball, k)
         IN  IF side \in {"left", "right"}
             THEN /\ ball'.y = ball.y /\ SameSign(ball'.vy, ball.vy)
                  /\ ball'.x = IF side = "left" THEN (k.x - BALL_RADIUS) * PX
                                ELSE (k.x + BRICK_W + BALL_RADIUS) * PX
             ELSE /\ ball'.x = ball.x /\ SameSign(ball'.vx, ball.vx)
                  /\ ball'.y = IF side = "top" THEN (k.y - BALL_RADIUS) * PX
                                ELSE (k.y + BRICK_H + BALL_RADIUS) * PX]_vars
\* the tie at the top-left corner of the first brick, resolved on the top edge
C19_Witness ==
    /\ ticks = 1 /\ ~bricks[1].alive /\ score = BRICK_REWARD
    /\ ball.x = (bricks[1].x + 5) * PX /\ ball.y = (bricks[1].y - BALL_RADIUS) * PX

\* C20: after a hit the component on the resolved axis points away from the
\* brick, the other component keeps its sign, and the speed is
\* min(BALL_MAX_SPEED, speed + 4).
C20_PointsAway ==
    [][Died = 1 =>
         LET side == Side(ball, bricks[Killed])
         IN  /\ side = "left" => ball'.vx < 0 /\ SameSign(ball'.vy, ball.vy)
             /\ side = "right" => ball'.vx > 0 /\ SameSign(ball'.vy, ball.vy)
             /\ side = "top" => ball'.vy < 0 /\ SameSign(ball'.vx, ball.vx)
             /\ side = "bottom" => ball'.vy > 0 /\ SameSign(ball'.vx, ball.vx)
             /\ Near(Speed(ball'),
                     Min(BALL_MAX_SPEED * VU, Speed(ball) + BALL_SPEED_INC_ON_HIT * VU), 1)]_vars
\* a ball that moved right, turned back at the left edge of the first brick
C20_Witness ==
    /\ ticks = 1 /\ ~bricks[1].alive /\ score = BRICK_REWARD
    /\ ball.x = (bricks[1].x - BALL_RADIUS) * PX /\ ball.vx < 0 /\ ball.vy > 0

\* The grid cell <<row, col>> a brick's corner falls in, and the bricks of a row.
CellOf(k) ==
    <<(k.y - TOP_MARGIN) \div (BRICK_H + BRICK_GAP), (k.x - GridLeft) \div (BRICK_W + BRICK_GAP)>>
OnGrid(k) ==
    /\ k.x = GridLeft + CellOf(k)[2] * (BRICK_W + BRICK_GAP)
    /\ k.y = TOP_MARGIN + CellOf(k)[1] * (BRICK_H + BRICK_GAP)
    /\ CellOf(k)[1] >= 0 /\ CellOf(k)[2] \in 0..(BRICK_COLS - 1)
FieldCells(bs) == {CellOf(bs[i]) : i \in 1..Len(bs)}
\* The field is made of distinct grid cells.
Gridded(bs) ==
    /\ \A i \in 1..Len(bs) : OnGrid(bs[i])
    /\ Cardinality(FieldCells(bs)) = Len(bs)
CountInRow(bs, r) ==
    Cardinality({i \in 1..Len(bs) : bs[i].y = TOP_MARGIN + r * (BRICK_H + BRICK_GAP)})
Apart(a, b) ==
    \/ a.x + BRICK_W <= b.x \/ b.x + BRICK_W <= a.x
    \/ a.y + BRICK_H <= b.y \/ b.y + BRICK_H <= a.y

\* C21: the field of a level from 1 to 4 does not depend on any draw and is all
\* alive: level 1 is the 7 x 12 grid, level 2 the cells with row + col even,
\* level 3 has 12 - 2r bricks in row r and none from the first row where that
\* is zero, level 4 fills the columns 0, 2, ..., 10 and no other; no two bricks
\* of a field overlap and every brick is inside the field's width.
C21_Layouts ==
    state = STATE_PLAYING =>
        /\ AllAlive(bricks)
        /\ \A i, j \in 1..Len(bricks) : i # j => Apart(bricks[i], bricks[j])
        /\ \A i \in 1..Len(bricks) :
              bricks[i].x >= 0 /\ bricks[i].x + BRICK_W <= LOGICAL_W
        /\ level < LAST_LEVEL => \A cells \in RandomFields : bricks = build_level(level, cells)
        /\ level = 1 =>
              /\ Gridded(bricks) /\ Len(bricks) = BRICK_ROWS * BRICK_COLS
              /\ FieldCells(bricks) = (0..(BRICK_ROWS - 1)) \X (0..(BRICK_COLS - 1))
        /\ level = 2 =>
              /\ Gridded(bricks)
              /\ FieldCells(bricks) =
                    {c \in (0..(BRICK_ROWS - 1)) \X (0..(BRICK_COLS - 1)) : (c[1] + c[2]) % 2 = 0}
        /\ level = 3 =>
              /\ \A r \in 0..(BRICK_ROWS + 1) :
                    CountInRow(bricks, r) = Max(0, BRICK_COLS - 2 * r)
              /\ \A i \in 1..Len(bricks) : CellOf(bricks[i])[1] \in 0..(BRICK_ROWS + 1)
        /\ level = 4 =>
              /\ Gridded(bricks)
              /\ \A c \in FieldCells(bricks) : c[2] % 2 = 0
              /\ \A r \in 0..(BRICK_ROWS - 1), c \in 0..(BRICK_COLS - 1) :
                    c % 2 = 0 => <<r, c>> \in FieldCells(bricks)
\* the pyramid, built
C21_Witness == state = STATE_PLAYING /\ level = 3 /\ CountInRow(bricks, 5) = 2

\* C22: while a session exists (PLAYING, INPUT_NAME or GAME_OVER) the level is
\* from 1 to 5 and not above unlocked_level.
C22_LevelInRange ==
    state \in {STATE_PLAYING, STATE_INPUT_NAME, STATE_GAME_OVER} =>
        level \in 1..LAST_LEVEL /\ level <= unlocked_level
\* a lower level started again after a higher one was unlocked and played
C22_Witness ==
    /\ state = STATE_PLAYING /\ level = 1 /\ unlocked_level > 1
    /\ reached > level

\* C23: lives is never negative and at least 1 while PLAYING; a frame changes
\* it by -1 for a lost ball and +1 for a level advance, and nothing else does
\* within a session; on the name and game-over screens lives is 0 exactly when
\* the final message is "GAME OVER".
C23_Lives ==
    /\ [](/\ lives >= 0
          /\ state = STATE_PLAYING => lives >= 1
          /\ state \in {STATE_INPUT_NAME, STATE_GAME_OVER} =>
                (lives = 0 <=> final_message = "GAME OVER"))
    /\ [][\/ Starts
          \/ ~Ticked /\ lives' = lives
          \/ Ticked /\ lives' = lives - (IF tk'.lost THEN 1 ELSE 0)
                                      + (IF Advances THEN 1 ELSE 0)]_vars

\* C24: a fresh field has a live brick, and a level completes only in a frame
\* that ends with every brick dead, one at least destroyed by the ball in this
\* instance of the level.
C24_NoEmptyClear ==
    [][/\ Starts \/ Advances => AliveCount(bricks') >= 1
       /\ Ticked /\ tk'.cleared =>
             /\ bricks # <<>>
             /\ tk'.hits >= 1 \/ \E i \in 1..Len(bricks) : ~bricks[i].alive]_vars

====
